---------------------------- MODULE Spec2Model ----------------------------
(***************************************************************************)
(* Model of wake-ollama (src/main.go): an HTTP handler that probes a       *)
(* device, wakes it with a Wake-on-LAN magic packet, polls until it is     *)
(* reachable, and then forwards the request.                               *)
(*                                                                         *)
(* Time is discrete; one tick is half a second.  Only the blocking calls   *)
(* (the TCP dial of isUp, the select over ctx.Done()/time.After, and the   *)
(* relay's network I/O) let time pass; every other statement of the        *)
(* handler is instantaneous.                                               *)
(***************************************************************************)
EXTENDS Integers, Sequences, FiniteSets, TLC

(***************************************************************************)
(* Bounds of the model.                                                    *)
(***************************************************************************)
\* largest configured pollInterval, in ticks
MaxPollInterval == 2
\* largest configured wakeTimeout, in ticks
MaxWakeTimeout == 2
\* ticks the relay (client.Do, io.Copy) may take in the model
MaxRelayTicks == 1

(***************************************************************************)
(* Program constants.                                                      *)
(***************************************************************************)
\* isUp: timeout := 1 * time.Second, i.e. two ticks
ProbeTimeout == 2
\* http.StatusGatewayTimeout, StatusRequestTimeout, StatusBadGateway,
\* StatusInternalServerError
StatusGatewayTimeout == 504
StatusRequestTimeout == 408
StatusBadGateway == 502
StatusInternalServerError == 500

\* the requests in flight; each runs wakeAndProxyHandler in its own goroutine
Reqs == {1}

\* status codes a backend answers with in the model
BackendStatuses == {200, 404, 504}

\* the clock never needs to run past the longest wait of a request
MaxTime ==
    ProbeTimeout + MaxWakeTimeout + MaxPollInterval + ProbeTimeout
        + 2 * MaxRelayTicks

NoTime == 0 - 1

(***************************************************************************)
(* Hardware addresses are sequences of one-character strings.              *)
(***************************************************************************)
HexDigits ==
    {"0", "1", "2", "3", "4", "5", "6", "7", "8", "9",
     "a", "b", "c", "d", "e", "f", "A", "B", "C", "D", "E", "F"}

HexVal(c) ==
    CASE c = "0" -> 0 [] c = "1" -> 1 [] c = "2" -> 2 [] c = "3" -> 3
      [] c = "4" -> 4 [] c = "5" -> 5 [] c = "6" -> 6 [] c = "7" -> 7
      [] c = "8" -> 8 [] c = "9" -> 9
      [] c \in {"a", "A"} -> 10 [] c \in {"b", "B"} -> 11
      [] c \in {"c", "C"} -> 12 [] c \in {"d", "D"} -> 13
      [] c \in {"e", "E"} -> 14 [] c \in {"f", "F"} -> 15

\* strings.ReplaceAll(s, old, "") for a one-character old
ReplaceAll(s, old) == SelectSeq(s, LAMBDA c : c # old)

\* a slip: the dots of a dotted address are left in
CleanNoDot(mac) == ReplaceAll(ReplaceAll(mac, ":"), "-")

\* clean := ReplaceAll(ReplaceAll(ReplaceAll(mac, ":", ""), "-", ""), ".", "")
Clean(mac) == ReplaceAll(ReplaceAll(ReplaceAll(mac, ":"), "-"), ".")

\* hex.DecodeString succeeds on an even-length string of hex digits
DecodeOk(clean) ==
    /\ Len(clean) % 2 = 0
    /\ \A i \in 1..Len(clean) : clean[i] \in HexDigits

\* hex.DecodeString: one byte per pair of digits
DecodeString(clean) ==
    [i \in 1..(Len(clean) \div 2) |->
        16 * HexVal(clean[2 * i - 1]) + HexVal(clean[2 * i])]

\* errors are tuples naming what failed; the nil error is the empty tuple
Nil == <<>>

\* the error sendMagicPacket returns before any send attempt, or nil
MacError(mac) ==
    IF Len(Clean(mac)) # 12 THEN <<"mac should be 12 hex chars">>
    ELSE IF ~DecodeOk(Clean(mac)) THEN <<"invalid mac">>
    ELSE Nil

\* packet := 6 x 0xFF followed by 16 repetitions of macBytes
Packet(macBytes) ==
    [i \in 1..(6 + 16 * 6) |->
        IF i <= 6 THEN 255 ELSE macBytes[((i - 7) % 6) + 1]]

\* addrs := []string{deviceIP + ":9", "255.255.255.255:9"}
Addrs == <<"deviceIP:9", "255.255.255.255:9">>

\* what the network does to one destination: the first call that fails
NetOutcomes == {"ok", "resolve", "dial", "write"}

Nets == [1..Len(Addrs) -> NetOutcomes]

\* a slip: the loop returns at the first failure instead of continuing
SendLoopNoContinue(i, net, lastErr, acc) ==
    IF net[1] = "ok"
    THEN [err |-> Nil, tried |-> <<net[1]>>, attempts |-> <<Addrs[1]>>]
    ELSE [err |-> <<net[1], Addrs[1]>>, tried |-> <<net[1]>>,
          attempts |-> IF net[1] = "write" THEN <<Addrs[1]>> ELSE <<>>]

\* the loop over addrs: a failed resolve, dial or write sets lastErr and
\* continues; the first successful write returns nil.  tried lists what the
\* network did to each destination the loop came to, attempts the
\* destinations conn.Write was called for.
RECURSIVE SendLoop(_, _, _, _)
SendLoop(i, net, lastErr, acc) ==
    IF i > Len(Addrs)
    THEN [err |-> lastErr, tried |-> acc.tried, attempts |-> acc.attempts]
    ELSE IF net[i] \in {"resolve", "dial"}
    THEN SendLoop(i + 1, net, <<net[i], Addrs[i]>>,
                  [tried |-> Append(acc.tried, net[i]),
                   attempts |-> acc.attempts])
    ELSE IF net[i] = "write"
    THEN SendLoop(i + 1, net, <<net[i], Addrs[i]>>,
                  [tried |-> Append(acc.tried, net[i]),
                   attempts |-> Append(acc.attempts, Addrs[i])])
    ELSE [err |-> Nil, tried |-> Append(acc.tried, net[i]),
          attempts |-> Append(acc.attempts, Addrs[i])]

\* a slip: the address is looked at only after the loop over addrs has run
sendMagicPacketLateCheck(mac, net) ==
    LET res == SendLoop(1, net, Nil, [tried |-> <<>>, attempts |-> <<>>]) IN
    IF MacError(mac) # Nil
    THEN [err |-> MacError(mac), tried |-> res.tried,
          attempts |-> res.attempts, packet |-> <<>>]
    ELSE [err |-> res.err, tried |-> res.tried, attempts |-> res.attempts,
          packet |-> Packet(DecodeString(Clean(mac)))]

\* sendMagicPacket: a rejected address returns before the packet is built
\* and before the loop; otherwise the packet is built and the loop run.
\* packet is the datagram the call built, empty when it built none.
sendMagicPacket(mac, net) ==
    IF MacError(mac) # Nil
    THEN [err |-> MacError(mac), tried |-> <<>>, attempts |-> <<>>,
          packet |-> <<>>]
    ELSE LET res == SendLoop(1, net, Nil, [tried |-> <<>>, attempts |-> <<>>])
         IN [err |-> res.err, tried |-> res.tried, attempts |-> res.attempts,
             packet |-> Packet(DecodeString(Clean(mac)))]

\* the datagrams a call of sendMagicPacket emitted: its successful writes
Sent(call) ==
    IF call.err = Nil /\ call.attempts # <<>>
    THEN <<call.attempts[Len(call.attempts)]>>
    ELSE <<>>

\* hardware addresses the configuration may hold in the model
MacSamples ==
    { <<"0","0",":","1","1",":","2","2",":","a","a",":","B","B",":","f","f">>,
      <<"0","0","1","1","2","2","a","a","B","B","f">>,
      <<"0","0","-","1","1","-","2","2","-","a","a","-","B","B","-","f","g">> }

\* the environments the process may be started in: DEVICE_MAC, DEVICE_IP and
\* DEVICE_PORT, each possibly empty
Envs ==
    [mac : MacSamples \cup {<<>>},
     ip : {"", "10.0.0.2"},
     port : {"", "11434"}]

\* initConfig: the error it returns, which main makes fatal, or nil
initConfig(env) ==
    IF env.mac = <<>> \/ env.ip = "" \/ env.port = ""
    THEN <<"DEVICE_MAC, DEVICE_IP and DEVICE_PORT must be set">>
    ELSE Nil

(***************************************************************************)
(* http.Header: a map from names to the values given for the name, in      *)
(* order.  A name the map does not hold has no values.                     *)
(***************************************************************************)
HeaderNames == {"X-Test", "Accept"}

EmptyHeader == [name \in HeaderNames |-> <<>>]

\* the names a range over the map visits
Keys(h) == {name \in HeaderNames : h[name] # <<>>}

\* the orders a range over the map may visit its names in
Orders(h) ==
    {o \in [1..Cardinality(Keys(h)) -> Keys(h)] :
        \A name \in Keys(h) : \E i \in DOMAIN o : o[i] = name}

\* a slip: Header.Set, which replaces the values the name has
HeaderSet(h, name, v) == [h EXCEPT ![name] = <<v>>]

\* Header.Add appends the value to the values the name has
HeaderAdd(h, name, v) == [h EXCEPT ![name] = Append(@, v)]

\* for _, v := range values { dst.Add(name, v) }, from the i-th value on
RECURSIVE AddValues(_, _, _, _)
AddValues(dst, name, values, i) ==
    IF i > Len(values) THEN dst
    ELSE AddValues(HeaderAdd(dst, name, values[i]), name, values, i + 1)

\* for name, values := range src { ... }, the names visited in order o, from
\* the i-th name on
RECURSIVE CopyHeader(_, _, _, _)
CopyHeader(dst, src, o, i) ==
    IF i > Len(o) THEN dst
    ELSE CopyHeader(AddValues(dst, o[i], src[o[i]], 1), src, o, i + 1)

\* header maps of inbound requests and of backend responses
HeaderSamples ==
    { EmptyHeader,
      [EmptyHeader EXCEPT !["X-Test"] = <<"a", "b">>],
      [EmptyHeader EXCEPT !["X-Test"] = <<"b", "a", "a">>,
                          !["Accept"] = <<"c">>],
      [EmptyHeader EXCEPT !["X-Test"] = <<"a", "a">>,
                          !["Accept"] = <<"d", "c">>] }

\* the header maps of a request when its handler is entered: r.Header as
\* received; req and resp do not exist yet, w.Header() is empty
NewHeaders(h) ==
    [r |-> h, req |-> EmptyHeader, resp |-> EmptyHeader, w |-> EmptyHeader]

(***************************************************************************)
(* State.                                                                  *)
(***************************************************************************)
VARIABLES
    now,          \* the clock, in ticks
    deviceMAC,    \* package-level configuration, set by initConfig
    pollInterval, \* positive durations, in ticks
    wakeTimeout,
    pc,           \* where each request's handler is
    timer,        \* when the blocking call a handler is in ends at the latest
    deadline,     \* the handler's local deadline
    ctxDone,      \* when the request's context was cancelled, or NoTime
    w,            \* the statuses written to the ResponseWriter, in order
    probes,       \* results of the isUp calls of the request, in order
    wake,         \* what the sendMagicPacket calls of the request returned
                  \* and what the network did to the destinations they tried
    fwd,          \* number of client.Do calls of the request
    hist,         \* observations: times of the events the properties speak of
    header        \* the header maps of the request: r.Header, req.Header,
                  \* resp.Header and w.Header()

vars == <<now, deviceMAC, pollInterval, wakeTimeout, pc, timer, deadline,
          ctxDone, w, probes, wake, fwd, hist, header>>

config == <<deviceMAC, pollInterval, wakeTimeout>>

NoHist ==
    [deadlineAt |-> NoTime,   \* when the deadline was computed
     loopExitAt |-> NoTime,   \* when the handler left the polling loop
     probeAt |-> NoTime,      \* when the latest probe started
     waits |-> 0,             \* number of select waits entered
     built |-> FALSE,         \* NewRequestWithContext was called
     lateWait |-> FALSE,      \* a wait went on after the deadline had passed
     lateProbe |-> FALSE,     \* a probe started after the deadline had passed
     probeAfterCancel |-> FALSE,  \* a probe started after the cancellation
     cancelInLoop |-> FALSE,  \* cancelled while waiting for the device
     wakeAfterProbes |-> 0,   \* number of probes made when the sender ran
     backend |-> 0,           \* the status of the backend's response, if any
     probesAtFwd |-> 0,       \* number of probes made when client.Do was called
     wakesAtFwd |-> 0,        \* number of sends made when client.Do was called
     copyFailed |-> FALSE]    \* io.Copy ended on an error

Init ==
    /\ now = 0
    /\ \E env \in Envs : initConfig(env) = Nil /\ deviceMAC = env.mac
    /\ pollInterval \in 1..MaxPollInterval
    /\ wakeTimeout \in 1..MaxWakeTimeout
    /\ pc = [r \in Reqs |-> "accept"]
    /\ timer = [r \in Reqs |-> NoTime]
    /\ deadline = [r \in Reqs |-> NoTime]
    /\ ctxDone = [r \in Reqs |-> NoTime]
    /\ w = [r \in Reqs |-> <<>>]
    /\ probes = [r \in Reqs |-> <<>>]
    /\ wake = [r \in Reqs |-> <<>>]
    /\ fwd = [r \in Reqs |-> 0]
    /\ hist = [r \in Reqs |-> NoHist]
    /\ header = [r \in Reqs |-> NewHeaders([EmptyHeader EXCEPT !["X-Test"] = <<"a", "b">>])]

(***************************************************************************)
(* Decisions of wakeAndProxyHandler.                                       *)
(***************************************************************************)
\* a slip: the wake-and-wait block entered whatever the probe said
AfterInitialProbeAlwaysWake(up) == "wake"

\* if !isUp(deviceIP, devicePort) { wake and wait } ; proxy
AfterInitialProbe(up) == IF up THEN "build" ELSE "wake"

\* a slip: a failed send skips the wait and goes on to the proxy
AfterWakeSkipWait(err) == IF err = Nil THEN "deadline" ELSE "build"

\* the send's error is logged only: "don't fail yet"
AfterWake(err) == "deadline"

\* a slip: the loop left on a failed probe
AfterPollProbeNegated(up) == IF up THEN "check" ELSE "build"

\* if isUp(deviceIP, devicePort) { break }
AfterPollProbe(up) == IF up THEN "build" ELSE "check"

\* a slip: the deadline is never found to have passed
ExpiredNever(t, d) == FALSE

\* time.Now().After(deadline)
Expired(t, d) == t > d

\* a slip: the wake block repeated on every round of the loop
AfterTimerRewake == "wake"

\* case <-time.After(pollInterval): // loop
AfterTimer == "loop"

\* a slip: a failed forward is tried again
AfterDoErrorRetry == "build"

\* http.Error(w, "error contacting Ollama", 502); return
AfterDoError == "done"

LoopPcs == {"wake", "deadline", "loop", "isUp", "check", "select"}

Record(r, f, v) == [hist EXCEPT ![r] = [@ EXCEPT ![f] = v]]

(***************************************************************************)
(* wakeAndProxyHandler, one action per step.                               *)
(***************************************************************************)
\* the server calls the handler, which starts the initial isUp
Handle(r) ==
    /\ pc[r] = "accept"
    /\ pc' = [pc EXCEPT ![r] = "isUp0"]
    /\ timer' = [timer EXCEPT ![r] = now + ProbeTimeout]
    /\ hist' = Record(r, "probeAt", now)
    /\ UNCHANGED <<now, config, header, deadline, ctxDone, w, probes, wake, fwd>>

\* the initial isUp returns within its timeout
InitialProbeReturn(r, up) ==
    /\ pc[r] = "isUp0"
    /\ now <= timer[r]
    /\ probes' = [probes EXCEPT ![r] = Append(@, up)]
    /\ pc' = [pc EXCEPT ![r] = AfterInitialProbe(up)]
    /\ timer' = [timer EXCEPT ![r] = NoTime]
    /\ UNCHANGED <<now, config, header, deadline, ctxDone, w, wake, fwd, hist>>

\* sendMagicPacket(deviceMAC), whose error is only logged
Wake(r, net) ==
    /\ pc[r] = "wake"
    /\ LET res == sendMagicPacket(deviceMAC, net) IN
        /\ wake' = [wake EXCEPT ![r] = Append(@, res)]
        /\ pc' = [pc EXCEPT ![r] = AfterWake(res.err)]
    /\ hist' = Record(r, "wakeAfterProbes", Len(probes[r]))
    /\ UNCHANGED <<now, config, header, timer, deadline, ctxDone, w, probes, fwd>>

\* a slip: the deadline kept in one place for all requests in flight
SetDeadlineShared(r) ==
    /\ pc[r] = "deadline"
    /\ deadline' = [q \in DOMAIN deadline |-> now + wakeTimeout]
    /\ pc' = [pc EXCEPT ![r] = "loop"]
    /\ hist' = Record(r, "deadlineAt", now)
    /\ UNCHANGED <<now, config, header, timer, ctxDone, w, probes, wake, fwd>>

\* deadline := time.Now().Add(wakeTimeout)
SetDeadline(r) ==
    /\ pc[r] = "deadline"
    /\ deadline' = [deadline EXCEPT ![r] = now + wakeTimeout]
    /\ pc' = [pc EXCEPT ![r] = "loop"]
    /\ hist' = Record(r, "deadlineAt", now)
    /\ UNCHANGED <<now, config, header, timer, ctxDone, w, probes, wake, fwd>>

\* top of the for loop: isUp is called
StartProbe(r) ==
    /\ pc[r] = "loop"
    /\ pc' = [pc EXCEPT ![r] = "isUp"]
    /\ timer' = [timer EXCEPT ![r] = now + ProbeTimeout]
    /\ hist' = [hist EXCEPT ![r] =
                  [@ EXCEPT !.probeAt = now,
                            !.lateProbe = @ \/ now > deadline[r],
                            !.probeAfterCancel =
                                @ \/ (ctxDone[r] # NoTime /\ now > ctxDone[r])]]
    /\ UNCHANGED <<now, config, header, deadline, ctxDone, w, probes, wake, fwd>>

\* the polling isUp returns within its timeout
PollProbeReturn(r, up) ==
    /\ pc[r] = "isUp"
    /\ now <= timer[r]
    /\ probes' = [probes EXCEPT ![r] = Append(@, up)]
    /\ pc' = [pc EXCEPT ![r] = AfterPollProbe(up)]
    /\ timer' = [timer EXCEPT ![r] = NoTime]
    /\ hist' = IF pc'[r] \in LoopPcs THEN hist
               ELSE Record(r, "loopExitAt", now)
    /\ UNCHANGED <<now, config, header, deadline, ctxDone, w, wake, fwd>>

\* a slip: the return after the 504 is missing, the handler goes on to proxy
CheckDeadlineNoReturn(r) ==
    /\ pc[r] = "check"
    /\ IF Expired(now, deadline[r])
       THEN /\ w' = [w EXCEPT ![r] = Append(@, StatusGatewayTimeout)]
            /\ pc' = [pc EXCEPT ![r] = "build"]
            /\ hist' = Record(r, "loopExitAt", now)
            /\ UNCHANGED timer
       ELSE /\ pc' = [pc EXCEPT ![r] = "select"]
            /\ timer' = [timer EXCEPT ![r] = now + pollInterval]
            /\ hist' = Record(r, "waits", hist[r].waits + 1)
            /\ UNCHANGED w
    /\ UNCHANGED <<now, config, header, deadline, ctxDone, probes, wake, fwd>>

\* if time.Now().After(deadline) { 504; return } ; otherwise enter the select
CheckDeadline(r) ==
    /\ pc[r] = "check"
    /\ IF Expired(now, deadline[r])
       THEN /\ w' = [w EXCEPT ![r] = Append(@, StatusGatewayTimeout)]
            /\ pc' = [pc EXCEPT ![r] = "done"]
            /\ hist' = Record(r, "loopExitAt", now)
            /\ UNCHANGED timer
       ELSE /\ pc' = [pc EXCEPT ![r] = "select"]
            /\ timer' = [timer EXCEPT ![r] = now + pollInterval]
            /\ hist' = Record(r, "waits", hist[r].waits + 1)
            /\ UNCHANGED w
    /\ UNCHANGED <<now, config, header, deadline, ctxDone, probes, wake, fwd>>

\* case <-ctx.Done(): 408; return
SelectCtxDone(r) ==
    /\ pc[r] = "select"
    /\ ctxDone[r] # NoTime
    /\ w' = [w EXCEPT ![r] = Append(@, StatusRequestTimeout)]
    /\ pc' = [pc EXCEPT ![r] = "done"]
    /\ timer' = [timer EXCEPT ![r] = NoTime]
    /\ hist' = [hist EXCEPT ![r] =
                  [@ EXCEPT !.loopExitAt = now,
                            !.lateWait = @ \/ now > deadline[r]]]
    /\ UNCHANGED <<now, config, header, deadline, ctxDone, probes, wake, fwd>>

\* case <-time.After(pollInterval): loop
SelectTimer(r) ==
    /\ pc[r] = "select"
    /\ now >= timer[r]
    /\ pc' = [pc EXCEPT ![r] = AfterTimer]
    /\ timer' = [timer EXCEPT ![r] = NoTime]
    /\ hist' = Record(r, "lateWait", hist[r].lateWait \/ now > deadline[r])
    /\ UNCHANGED <<now, config, header, deadline, ctxDone, w, probes, wake, fwd>>

\* a slip: a request that cannot be built is blamed on the client (400)
BuildBadRequest(r, ok, o) ==
    /\ pc[r] = "build"
    /\ IF ok
       THEN /\ pc' = [pc EXCEPT ![r] = "do"]
            /\ fwd' = [fwd EXCEPT ![r] = @ + 1]
            /\ timer' = [timer EXCEPT ![r] = now + MaxRelayTicks]
            /\ header' = [header EXCEPT ![r].req =
                            CopyHeader(EmptyHeader, header[r].r, o, 1)]
            /\ hist' = [hist EXCEPT ![r] =
                          [@ EXCEPT !.built = TRUE,
                                    !.probesAtFwd = Len(probes[r]),
                                    !.wakesAtFwd = Len(wake[r])]]
            /\ UNCHANGED w
       ELSE /\ w' = [w EXCEPT ![r] = Append(@, 400)]
            /\ pc' = [pc EXCEPT ![r] = "done"]
            /\ hist' = Record(r, "built", TRUE)
            /\ UNCHANGED <<fwd, timer, header>>
    /\ UNCHANGED <<now, config, deadline, ctxDone, probes, wake>>

\* http.NewRequestWithContext (500 when it fails), the copy of r.Header into
\* the new request's empty header, the range visiting the names in order o,
\* and the call of client.Do
Build(r, ok, o) ==
    /\ pc[r] = "build"
    /\ IF ok
       THEN /\ pc' = [pc EXCEPT ![r] = "do"]
            /\ fwd' = [fwd EXCEPT ![r] = @ + 1]
            /\ timer' = [timer EXCEPT ![r] = now + MaxRelayTicks]
            /\ header' = [header EXCEPT ![r].req =
                            CopyHeader(EmptyHeader, header[r].r, o, 1)]
            /\ hist' = [hist EXCEPT ![r] =
                          [@ EXCEPT !.built = TRUE,
                                    !.probesAtFwd = Len(probes[r]),
                                    !.wakesAtFwd = Len(wake[r])]]
            /\ UNCHANGED w
       ELSE /\ w' = [w EXCEPT ![r] = Append(@, StatusInternalServerError)]
            /\ pc' = [pc EXCEPT ![r] = "done"]
            /\ hist' = Record(r, "built", TRUE)
            /\ UNCHANGED <<fwd, timer, header>>
    /\ UNCHANGED <<now, config, deadline, ctxDone, probes, wake>>

\* a slip: the forward's failure answered like a request that cannot be built
DoErrorWrongStatus(r) ==
    /\ pc[r] = "do"
    /\ w' = [w EXCEPT ![r] = Append(@, StatusInternalServerError)]
    /\ pc' = [pc EXCEPT ![r] = AfterDoError]
    /\ timer' = [timer EXCEPT ![r] = NoTime]
    /\ UNCHANGED <<now, config, header, deadline, ctxDone, probes, wake, fwd, hist>>

\* client.Do returns an error: 502; return
DoError(r) ==
    /\ pc[r] = "do"
    /\ w' = [w EXCEPT ![r] = Append(@, StatusBadGateway)]
    /\ pc' = [pc EXCEPT ![r] = AfterDoError]
    /\ timer' = [timer EXCEPT ![r] = NoTime]
    /\ UNCHANGED <<now, config, header, deadline, ctxDone, probes, wake, fwd, hist>>

\* client.Do returns a response with header map h, which a cancelled
\* context rules out; its headers are copied into w.Header(), the range
\* visiting the names in order o, and w.WriteHeader(resp.StatusCode) is called
DoResponse(r, status, h, o) ==
    /\ pc[r] = "do"
    /\ ctxDone[r] = NoTime
    /\ w' = [w EXCEPT ![r] = Append(@, status)]
    /\ pc' = [pc EXCEPT ![r] = "copy"]
    /\ timer' = [timer EXCEPT ![r] = now + MaxRelayTicks]
    /\ header' = [header EXCEPT ![r].resp = h,
                                ![r].w = CopyHeader(header[r].w, h, o, 1)]
    /\ hist' = Record(r, "backend", status)
    /\ UNCHANGED <<now, config, deadline, ctxDone, probes, wake, fwd>>

\* io.Copy(w, resp.Body) ends, with the whole body copied or on an error of
\* the backend connection; its result is ignored and the handler returns
Copy(r, ok) ==
    /\ pc[r] = "copy"
    /\ pc' = [pc EXCEPT ![r] = "done"]
    /\ timer' = [timer EXCEPT ![r] = NoTime]
    /\ hist' = Record(r, "copyFailed", ~ok)
    /\ UNCHANGED <<now, config, header, deadline, ctxDone, w, probes, wake, fwd>>

(***************************************************************************)
(* Environment.                                                            *)
(***************************************************************************)
\* the header maps backends answer with where the headers are not looked at
RespHeaders == {[EmptyHeader EXCEPT !["X-Test"] = <<"b", "a", "a">>]}

\* the client disconnects: r.Context() is cancelled
Cancel(r) ==
    /\ pc[r] \notin {"accept", "done"}
    /\ ctxDone[r] = NoTime
    /\ ctxDone' = [ctxDone EXCEPT ![r] = now]
    /\ hist' = Record(r, "cancelInLoop", pc[r] \in LoopPcs)
    /\ UNCHANGED <<now, config, header, pc, timer, deadline, w, probes, wake, fwd>>

\* a handler in a blocking call
Blocked(r) == pc[r] \in {"isUp0", "isUp", "select", "do", "copy"}

\* a handler that runs, or whose blocking call has to end, before time passes
Urgent(r) ==
    \/ pc[r] \in {"wake", "deadline", "loop", "check", "build"}
    \/ pc[r] \in {"isUp0", "isUp", "do", "copy"} /\ now >= timer[r]
    \/ pc[r] = "select" /\ (now >= timer[r] \/ ctxDone[r] # NoTime)

Tick ==
    /\ now < MaxTime
    /\ \E r \in DOMAIN pc : Blocked(r)
    /\ \A r \in DOMAIN pc : ~Urgent(r)
    /\ now' = now + 1
    /\ UNCHANGED <<config, header, pc, timer, deadline, ctxDone, w, probes, wake, fwd,
                   hist>>

Next ==
    \/ Tick
    \/ \E r \in Reqs :
        \/ Handle(r)
        \/ \E up \in BOOLEAN : InitialProbeReturn(r, up)
        \/ \E net \in Nets : Wake(r, net)
        \/ SetDeadline(r)
        \/ StartProbe(r)
        \/ \E up \in BOOLEAN : PollProbeReturn(r, up)
        \/ CheckDeadline(r)
        \/ SelectCtxDone(r)
        \/ SelectTimer(r)
        \/ \E ok \in BOOLEAN, o \in Orders(header[r].r) : Build(r, ok, o)
        \/ DoError(r)
        \/ \E status \in BackendStatuses, h \in RespHeaders :
              \E o \in Orders(h) : DoResponse(r, status, h, o)
        \/ \E ok \in BOOLEAN : Copy(r, ok)
        \/ Cancel(r)

Spec == Init /\ [][Next]_vars

(***************************************************************************)
(* Progress.  The goroutine of a request is scheduled again and again, so  *)
(* a handler step that stays possible is taken; time advances; a client    *)
(* may disconnect or not.  The network lets every send through and the     *)
(* backend, when it answers, answers 200.                                  *)
(***************************************************************************)
\* a network on which every destination takes the datagram
NetOk == [i \in 1..Len(Addrs) |-> "ok"]

\* one step of the handler of request r
HandlerStep(r) ==
    \/ Handle(r)
    \/ \E up \in BOOLEAN : InitialProbeReturn(r, up)
    \/ Wake(r, NetOk)
    \/ SetDeadline(r)
    \/ StartProbe(r)
    \/ \E up \in BOOLEAN : PollProbeReturn(r, up)
    \/ CheckDeadline(r)
    \/ SelectCtxDone(r)
    \/ SelectTimer(r)
    \/ Build(r, TRUE, <<"X-Test">>)
    \/ DoError(r)
    \/ DoResponse(r, 200, EmptyHeader, <<>>)
    \/ Copy(r, TRUE)

NextLive ==
    \/ Tick
    \/ \E r \in Reqs : HandlerStep(r)
    \/ \E r \in Reqs : Cancel(r)

LiveSpec ==
    /\ Init
    /\ [][NextLive]_vars
    /\ WF_vars(Tick)
    /\ \A r \in Reqs : WF_vars(HandlerStep(r))

(***************************************************************************)
(* The wake send over many hardware addresses: six bytes written in every  *)
(* delimiter style and case, and addresses sendMagicPacket rejects.  A     *)
(* request finds the device down and calls sendMagicPacket.                *)
(***************************************************************************)
\* six-byte hardware addresses
ByteSamples ==
    { <<0, 17, 34, 170, 187, 255>>,
      <<222, 173, 190, 239, 0, 1>>,
      <<255, 255, 255, 255, 255, 255>> }

LowerDigits ==
    <<"0","1","2","3","4","5","6","7","8","9","a","b","c","d","e","f">>

UpperDigits ==
    <<"0","1","2","3","4","5","6","7","8","9","A","B","C","D","E","F">>

\* the two hex digits of a byte
HexOf(b, upper) ==
    LET digits == IF upper THEN UpperDigits ELSE LowerDigits
    IN <<digits[(b \div 16) + 1], digits[(b % 16) + 1]>>

\* the bytes from the i-th on as hex digits, sep between groups of group
\* bytes: 00:11:22:aa:bb:ff, 00-11-..., 0011.22aa.bbff, 001122aabbff
RECURSIVE FormatFrom(_, _, _, _, _)
FormatFrom(bytes, i, sep, group, upper) ==
    IF i > Len(bytes) THEN <<>>
    ELSE (IF i > 1 /\ (i - 1) % group = 0 THEN sep ELSE <<>>)
             \o HexOf(bytes[i], upper)
             \o FormatFrom(bytes, i + 1, sep, group, upper)

Format(bytes, sep, group, upper) == FormatFrom(bytes, 1, sep, group, upper)

\* the delimiters sendMagicPacket strips, and no delimiter
Seps == {<<":">>, <<"-">>, <<".">>, <<>>}

Groups == {1, 2}

FormattedMacs ==
    { Format(b, sep, g, u) : b \in ByteSamples, sep \in Seps, g \in Groups,
                              u \in BOOLEAN }

\* addresses that are not six bytes in hex: too short, too long, a letter
\* that is no hex digit, another delimiter, nothing but delimiters
MalformedMacs ==
    { <<"0","0","1","1","2","2","a","a","B","B","f">>,
      <<"0","0","1","1","2","2","a","a","B","B","f","f","0">>,
      <<"0","0","-","1","1","-","2","2","-","a","a","-","B","B","-","f","g">>,
      <<"0","0","1","1",".","2","2","a","a",".","b","b","z","z">>,
      <<"0","0","_","1","1","_","2","2","_","a","a">>,
      <<":",":",":",":",":">> }

InitMac ==
    /\ now = 0
    /\ deviceMAC \in FormattedMacs \cup MalformedMacs
    /\ pollInterval \in 1..MaxPollInterval
    /\ wakeTimeout \in 1..MaxWakeTimeout
    /\ pc = [r \in Reqs |-> "accept"]
    /\ timer = [r \in Reqs |-> NoTime]
    /\ deadline = [r \in Reqs |-> NoTime]
    /\ ctxDone = [r \in Reqs |-> NoTime]
    /\ w = [r \in Reqs |-> <<>>]
    /\ probes = [r \in Reqs |-> <<>>]
    /\ wake = [r \in Reqs |-> <<>>]
    /\ fwd = [r \in Reqs |-> 0]
    /\ hist = [r \in Reqs |-> NoHist]
    /\ header = [r \in Reqs |-> NewHeaders([EmptyHeader EXCEPT !["X-Test"] = <<"a", "b">>])]

NextMac ==
    \E r \in Reqs :
        \/ Handle(r)
        \/ InitialProbeReturn(r, FALSE)
        \/ \E net \in Nets : Wake(r, net)

SpecMac == InitMac /\ [][NextMac]_vars

(***************************************************************************)
(* The relay over many header maps: the device is up when the request      *)
(* arrives, the request is forwarded and the backend answers.              *)
(***************************************************************************)
InitHdr ==
    /\ now = 0
    /\ \E env \in Envs : initConfig(env) = Nil /\ deviceMAC = env.mac
    /\ pollInterval \in 1..MaxPollInterval
    /\ wakeTimeout \in 1..MaxWakeTimeout
    /\ pc = [r \in Reqs |-> "accept"]
    /\ timer = [r \in Reqs |-> NoTime]
    /\ deadline = [r \in Reqs |-> NoTime]
    /\ ctxDone = [r \in Reqs |-> NoTime]
    /\ w = [r \in Reqs |-> <<>>]
    /\ probes = [r \in Reqs |-> <<>>]
    /\ wake = [r \in Reqs |-> <<>>]
    /\ fwd = [r \in Reqs |-> 0]
    /\ hist = [r \in Reqs |-> NoHist]
    /\ header \in [Reqs -> {NewHeaders(h) : h \in HeaderSamples}]

NextHdr ==
    \E r \in Reqs :
        \/ Handle(r)
        \/ InitialProbeReturn(r, TRUE)
        \/ \E o \in Orders(header[r].r) : Build(r, TRUE, o)
        \/ \E h \in HeaderSamples : \E o \in Orders(h) :
              DoResponse(r, 200, h, o)
        \/ Copy(r, TRUE)

SpecHdr == InitHdr /\ [][NextHdr]_vars

(***************************************************************************)
(* Two requests in flight at once.  http.ListenAndServe runs the handler   *)
(* of each request in a goroutine of its own; the handlers share the       *)
(* configuration variables and the clock, nothing else.  The network lets  *)
(* every send through, the device is down when the requests arrive, the    *)
(* backend answers 200 or not at all, and the client of request 1 is the   *)
(* one that may disconnect.                                                *)
(***************************************************************************)
ConcReqs == {1, 2}

InitConc ==
    /\ now = 0
    /\ \E env \in Envs :
          initConfig(env) = Nil /\ MacError(env.mac) = Nil /\ deviceMAC = env.mac
    /\ pollInterval = 1
    /\ wakeTimeout = 1
    /\ pc = [r \in ConcReqs |-> "accept"]
    /\ timer = [r \in ConcReqs |-> NoTime]
    /\ deadline = [r \in ConcReqs |-> NoTime]
    /\ ctxDone = [r \in ConcReqs |-> NoTime]
    /\ w = [r \in ConcReqs |-> <<>>]
    /\ probes = [r \in ConcReqs |-> <<>>]
    /\ wake = [r \in ConcReqs |-> <<>>]
    /\ fwd = [r \in ConcReqs |-> 0]
    /\ hist = [r \in ConcReqs |-> NoHist]
    /\ header = [r \in ConcReqs |-> NewHeaders(EmptyHeader)]

\* the clock, run as far as one request needs from arrival to its 504
TickConc == now < 3 * ProbeTimeout /\ Tick

NextConc ==
    \/ TickConc
    \/ \E r \in ConcReqs :
        \/ Handle(r)
        \/ InitialProbeReturn(r, FALSE)
        \/ Wake(r, NetOk)
        \/ SetDeadline(r)
        \/ StartProbe(r)
        \/ \E up \in BOOLEAN : PollProbeReturn(r, up)
        \/ CheckDeadline(r)
        \/ SelectCtxDone(r)
        \/ SelectTimer(r)
        \/ Build(r, TRUE, <<>>)
        \/ DoError(r)
        \/ DoResponse(r, 200, EmptyHeader, <<>>)
        \/ Copy(r, TRUE)
    \/ Cancel(1)

SpecConc == InitConc /\ [][NextConc]_vars

(***************************************************************************)
(* Properties.                                                             *)
(***************************************************************************)
Last(s) == s[Len(s)]

RelayPcs == {"build", "do", "copy"}

\* C1: a request is forwarded to the backend (the outbound request built,
\* client.Do called) only when the most recent isUp of that request
\* returned true.
C1_ForwardOnlyAfterProbeUp ==
    \A r \in Reqs :
        (hist[r].built \/ fwd[r] > 0 \/ pc[r] \in RelayPcs)
            => (probes[r] # <<>> /\ Last(probes[r]) = TRUE)

\* a request forwarded after the wake and two failed polling probes
C1_Witness ==
    \E r \in Reqs :
        /\ fwd[r] = 1
        /\ Len(probes[r]) >= 4
        /\ wake[r] # <<>>

\* C2: when the first probe of a request finds the port reachable, no wake
\* packet is sent, there is no polling wait and no further probe, and the
\* handler is in the relay or has finished it.
C2_FastPath ==
    \A r \in Reqs :
        (probes[r] # <<>> /\ probes[r][1] = TRUE) =>
            /\ wake[r] = <<>>
            /\ hist[r].waits = 0
            /\ deadline[r] = NoTime
            /\ Len(probes[r]) = 1
            /\ pc[r] \in RelayPcs \cup {"done"}
            /\ \A i \in 1..Len(w[r]) :
                   w[r][i] \notin {StatusGatewayTimeout, StatusRequestTimeout}
                       \/ w[r][i] = hist[r].backend

\* a request relayed on the fast path, the backend's 200 written
C2_Witness ==
    \E r \in Reqs :
        /\ probes[r] = <<TRUE>>
        /\ pc[r] = "done"
        /\ w[r] = <<200>>

\* the handler answered 504 after probes that all failed, never cancelled
TimedOut(r) ==
    /\ pc[r] = "done"
    /\ w[r] = <<StatusGatewayTimeout>>
    /\ ctxDone[r] = NoTime
    /\ \A i \in 1..Len(probes[r]) : probes[r][i] = FALSE

\* C3: when every probe fails and the request is not cancelled, the 504 is
\* reached at a time T after the deadline was computed with
\* wakeTimeout <= T <= wakeTimeout + pollInterval.
C3_TimeoutWindow ==
    \A r \in Reqs :
        TimedOut(r) =>
            LET T == hist[r].loopExitAt - hist[r].deadlineAt IN
            /\ wakeTimeout <= T
            /\ T <= wakeTimeout + pollInterval

\* the request was cancelled once polling had started
CancelledWhilePolling(r) ==
    /\ hist[r].deadlineAt # NoTime
    /\ ctxDone[r] # NoTime
    /\ ctxDone[r] >= hist[r].deadlineAt
    /\ hist[r].cancelInLoop

\* C4: after a cancellation that comes once polling has started, the handler
\* is out of the polling loop within one poll interval, and no probe starts
\* after the cancellation.
C4_CancelStopsPolling ==
    \A r \in Reqs :
        CancelledWhilePolling(r) =>
            /\ pc[r] \in {"loop", "isUp", "check", "select"}
                   => now - ctxDone[r] <= pollInterval
            /\ ~hist[r].probeAfterCancel

\* C5: a request cancelled while the handler waits for the device ends with
\* 408 and nothing else: no outbound request is built or sent, and neither
\* 504 nor 502 is written.
C5_CancelledOutcome ==
    \A r \in Reqs :
        hist[r].cancelInLoop =>
            /\ ~hist[r].built
            /\ fwd[r] = 0
            /\ pc[r] \notin RelayPcs
            /\ pc[r] = "done" => w[r] = <<StatusRequestTimeout>>

\* C6: the wait between two probes ends with the first of the timer, the
\* deadline and the cancellation: a wait never outlasts the deadline, so no
\* probe starts after the deadline has passed and such a wait is answered
\* with 504.
C6_ThreeWayRace ==
    \A r \in Reqs :
        /\ pc[r] = "select" => now <= deadline[r]
        /\ ~hist[r].lateProbe
        /\ (hist[r].lateWait /\ pc[r] = "done")
               => w[r] = <<StatusGatewayTimeout>>

\* C7: the result of sendMagicPacket does not steer the handler: after the
\* send, failed or not, the handler computes the deadline as now +
\* wakeTimeout and polls, and every response of a request that sent a wake
\* packet follows at least one polling probe.
C7_SendResultIgnored ==
    \A r \in Reqs :
        wake[r] # <<>> =>
            /\ pc[r] # "wake"
            /\ pc[r] = "deadline" => (w[r] = <<>> /\ Len(probes[r]) = 1)
            /\ pc[r] # "deadline" =>
                   /\ hist[r].deadlineAt # NoTime
                   /\ deadline[r] = hist[r].deadlineAt + wakeTimeout
            /\ (w[r] # <<>> \/ pc[r] \in RelayPcs \cup {"done"})
                   => Len(probes[r]) >= 2

\* a request whose wake send failed and which was relayed all the same
C7_Witness ==
    \E r \in Reqs :
        /\ wake[r] # <<>>
        /\ wake[r][1].err # Nil
        /\ pc[r] = "done"
        /\ w[r] = <<200>>

\* C8: with a valid hardware address, sendMagicPacket continues past a
\* destination whose resolve, dial or write fails, returns nil when a
\* destination accepted the write, and returns an error only when every
\* destination failed, the error being that of the last destination.
C8_SendPolicy ==
    \A r \in Reqs : \A k \in 1..Len(wake[r]) :
        LET call == wake[r][k]
            n == Len(call.tried)
        IN  MacError(deviceMAC) = Nil =>
            /\ n >= 1
            /\ \A j \in 1..(n - 1) : call.tried[j] # "ok"
            /\ call.tried[n] # "ok" => n = Len(Addrs)
            /\ call.err = Nil <=> call.tried[n] = "ok"
            /\ call.err # Nil =>
                   /\ \A j \in 1..n : call.tried[j] # "ok"
                   /\ call.err = <<call.tried[Len(Addrs)], Addrs[Len(Addrs)]>>

\* a send that went on past a failed first destination and succeeded
C8_Witness ==
    \E r \in Reqs :
        /\ wake[r] # <<>>
        /\ wake[r][1].tried = <<"write", "ok">>
        /\ wake[r][1].err = Nil

\* C9: every call of sendMagicPacket with a valid hardware address comes to
\* every destination, the second one also when the first accepted the
\* write, so that a write is attempted on each destination that resolves
\* and dials.
C9_EveryDestination ==
    \A r \in Reqs : \A k \in 1..Len(wake[r]) :
        LET call == wake[r][k] IN
        MacError(deviceMAC) = Nil =>
            /\ Len(call.tried) = Len(Addrs)
            /\ (\A j \in 1..Len(call.tried) : call.tried[j] \in {"ok", "write"})
                   => call.attempts = Addrs

\* the request found the device down and a later probe succeeded by the
\* deadline, and the handler has returned
WokenInTime(r) ==
    /\ pc[r] = "done"
    /\ Len(probes[r]) >= 2
    /\ probes[r][1] = FALSE
    /\ Last(probes[r]) = TRUE
    /\ hist[r].loopExitAt <= deadline[r]

\* the wake sender ran at most once, after the failed initial probe and
\* before any polling probe
WakeOnceInOrder(r) ==
    /\ Len(wake[r]) <= 1
    /\ wake[r] # <<>> =>
           /\ hist[r].wakeAfterProbes = 1
           /\ probes[r][1] = FALSE
    /\ Len(probes[r]) >= 2 => Len(wake[r]) = 1

\* C10 as claimed: the sender runs at most once and in order, and a request
\* woken in time is relayed and answered with the backend's own status.
C10_AsClaimed ==
    \A r \in Reqs :
        /\ WakeOnceInOrder(r)
        /\ WokenInTime(r) =>
               /\ fwd[r] = 1
               /\ hist[r].backend # 0
               /\ w[r] = <<hist[r].backend>>

\* C10 amended: the sender runs at most once and in order, and a request
\* woken in time is answered 500 without a forward when the outbound request
\* cannot be built, and is otherwise forwarded once and answered with the
\* backend's own status, or with 502 when client.Do fails.
C10_WakeOnceThenRelay ==
    \A r \in Reqs :
        /\ WakeOnceInOrder(r)
        /\ WokenInTime(r) =>
               /\ hist[r].built
               /\ \/ fwd[r] = 0 /\ w[r] = <<StatusInternalServerError>>
                  \/ /\ fwd[r] = 1
                     /\ hist[r].backend = 0
                     /\ w[r] = <<StatusBadGateway>>
                  \/ /\ fwd[r] = 1
                     /\ hist[r].backend \in BackendStatuses
                     /\ w[r] = <<hist[r].backend>>

\* a request that found the device down, woke it, saw the third polling
\* probe succeed and relayed the backend's 404
C10_Witness ==
    \E r \in Reqs :
        /\ WokenInTime(r)
        /\ Len(wake[r]) = 1
        /\ Len(probes[r]) = 4
        /\ w[r] = <<404>>
\* C11: when client.Do fails the handler answers 502 and stops: at most one
\* forward is made per request, and no probe and no wake send follows the
\* forward.
C11_NoRetry ==
    \A r \in Reqs :
        /\ fwd[r] <= 1
        /\ fwd[r] = 1 =>
               /\ Len(probes[r]) = hist[r].probesAtFwd
               /\ Len(wake[r]) = hist[r].wakesAtFwd
        /\ (fwd[r] = 1 /\ hist[r].backend = 0 /\ pc[r] # "do") =>
               /\ pc[r] = "done"
               /\ w[r] = <<StatusBadGateway>>

\* a request woken, forwarded once, the forward failed and answered 502
C11_Witness ==
    \E r \in Reqs :
        /\ pc[r] = "done"
        /\ fwd[r] = 1
        /\ Len(wake[r]) = 1
        /\ Last(probes[r]) = TRUE
        /\ w[r] = <<StatusBadGateway>>

\* the relay of the request met an error: client.Do failed, or the body copy
\* broke off
RelayError(r) ==
    /\ pc[r] = "done"
    /\ fwd[r] = 1
    /\ hist[r].backend = 0 \/ hist[r].copyFailed

\* C12 as claimed: every relay error, a failure in the middle of the body
\* copy included, is answered with 502.
C12_AsClaimed ==
    \A r \in Reqs : RelayError(r) => w[r] = <<StatusBadGateway>>

\* C12 amended: a failure of client.Do is answered with 502; a failure in
\* the middle of the body copy comes after the backend's status was written
\* and leaves that status as the only one.
C12_RelayErrors ==
    \A r \in Reqs :
        RelayError(r) =>
            /\ hist[r].backend = 0 => w[r] = <<StatusBadGateway>>
            /\ hist[r].copyFailed =>
                   /\ hist[r].backend \in BackendStatuses
                   /\ w[r] = <<hist[r].backend>>

\* a body copy that broke off after the backend's 200 was written
C12_Witness ==
    \E r \in Reqs :
        /\ RelayError(r)
        /\ hist[r].copyFailed
        /\ w[r] = <<200>>

\* C13 as claimed: every status written is 502, 504 or 408, or the status
\* the backend returned.
C13_AsClaimed ==
    \A r \in Reqs : \A i \in 1..Len(w[r]) :
        \/ w[r][i] \in {StatusBadGateway, StatusGatewayTimeout,
                        StatusRequestTimeout}
        \/ hist[r].backend # 0 /\ w[r][i] = hist[r].backend

\* C13 amended: every status written is the backend's, or one the handler
\* originates: 504 after a failed probe past the deadline, 408 on a
\* cancellation seen in the select, 500 when the outbound request cannot be
\* built, 502 when client.Do fails.
C13_OriginatedStatuses ==
    \A r \in Reqs : \A i \in 1..Len(w[r]) :
        LET s == w[r][i] IN
        IF hist[r].backend # 0
        THEN s = hist[r].backend
        ELSE \/ /\ s = StatusGatewayTimeout
                /\ ~hist[r].built
                /\ Last(probes[r]) = FALSE
             \/ /\ s = StatusRequestTimeout
                /\ ~hist[r].built
                /\ ctxDone[r] # NoTime
             \/ /\ s = StatusInternalServerError
                /\ hist[r].built
                /\ fwd[r] = 0
             \/ /\ s = StatusBadGateway
                /\ fwd[r] = 1

\* a request answered 500 because the outbound request could not be built
C13_Witness ==
    \E r \in Reqs :
        /\ pc[r] = "done"
        /\ hist[r].built
        /\ fwd[r] = 0
        /\ w[r] = <<StatusInternalServerError>>

\* the errors sendMagicPacket returns for a hardware address it rejects
ConfigErrors == {<<"mac should be 12 hex chars">>, <<"invalid mac">>}

\* C14: once initConfig returned nil no request meets a configuration
\* error: no call of sendMagicPacket fails on the length or the hex content
\* of the hardware address.
C14_NoConfigErrorPerRequest ==
    \A r \in Reqs : \A i \in 1..Len(wake[r]) : wake[r][i].err \notin ConfigErrors

\* everything the handler of one request reads or writes besides the
\* configuration and the clock
ReqState(r) ==
    <<pc[r], timer[r], deadline[r], ctxDone[r], w[r], probes[r], wake[r],
      fwd[r], hist[r], header[r]>>

\* what a request holds comes from its own steps: its deadline from its own
\* arming, its own wake send after its own failed probe, its 408 from its
\* own cancellation, its 504 from its own failed probe past its own deadline
OwnOutcome(r) ==
    /\ deadline[r] # NoTime <=> hist[r].deadlineAt # NoTime
    /\ deadline[r] # NoTime => deadline[r] = hist[r].deadlineAt + wakeTimeout
    /\ (probes[r] # <<>> /\ probes[r][1] = FALSE /\ pc[r] # "wake")
           => Len(wake[r]) = 1
    /\ Len(probes[r]) >= hist[r].wakeAfterProbes
    /\ w[r] = <<StatusRequestTimeout>> => ctxDone[r] # NoTime
    /\ w[r] = <<StatusGatewayTimeout>> =>
           /\ Last(probes[r]) = FALSE
           /\ hist[r].loopExitAt > deadline[r]
    /\ w[r] = <<StatusBadGateway>> => fwd[r] = 1

\* C15: concurrent requests are independent: a step of one handler leaves
\* everything the other request holds unchanged, each request is woken,
\* polled and timed by its own handler, and the cancellation, timeout or
\* relay error of one request is never the cause of the other's answer.
C15_Independent ==
    /\ [](\A r \in ConcReqs : OwnOutcome(r))
    /\ [](\A r \in ConcReqs \ {1} : ctxDone[r] = NoTime)
    /\ [][\A r, q \in ConcReqs :
            (r # q /\ ReqState(r)' # ReqState(r))
                => ReqState(q)' = ReqState(q)]_vars

\* two requests polling at the same time, each after a wake send of its own
\* and with a deadline of its own; request 1 was cancelled and answered 408,
\* request 2 was relayed and answered 200
C15_Witness ==
    /\ w[1] = <<StatusRequestTimeout>>
    /\ w[2] = <<200>>
    /\ Len(wake[1]) = 1
    /\ Len(wake[2]) = 1
    /\ deadline[1] # deadline[2]
    /\ hist[2].deadlineAt <= hist[1].loopExitAt
    /\ hist[1].deadlineAt <= hist[2].loopExitAt

\* C16: for six bytes written as twelve hex digits with ':', '-', '.' or no
\* delimiter, in either case, sendMagicPacket accepts the address and builds
\* the same 102 bytes: six times 0xFF, then the six bytes sixteen times.
C16_PacketLayout ==
    \A r \in Reqs : \A i \in 1..Len(wake[r]) :
        \A b \in ByteSamples, sep \in Seps, g \in Groups, u \in BOOLEAN :
            deviceMAC = Format(b, sep, g, u) =>
                LET p == wake[r][i].packet IN
                /\ wake[r][i].err \notin ConfigErrors
                /\ DOMAIN p = 1..102
                /\ \A k \in 1..6 : p[k] = 255
                /\ \A n \in 0..15 : \A j \in 1..6 : p[6 + 6 * n + j] = b[j]

\* a wake send for de:ad:be:ef:00:01 written as DEAD.BEEF.0001 whose datagram
\* went out
C16_Witness ==
    \E r \in Reqs :
        /\ deviceMAC = Format(<<222, 173, 190, 239, 0, 1>>, <<".">>, 2, TRUE)
        /\ Len(wake[r]) = 1
        /\ Sent(wake[r][1]) # <<>>
        /\ wake[r][1].packet[102] = 1

\* an address that, its ':', '-' and '.' taken out, is not twelve hex digits
Malformed(mac) ==
    LET stripped == SelectSeq(mac, LAMBDA c : c \notin {":", "-", "."})
    IN \/ Len(stripped) # 12
       \/ \E i \in 1..Len(stripped) : stripped[i] \notin HexDigits

\* C17: for a malformed address sendMagicPacket returns an error before any
\* send attempt: no destination is resolved or dialled, no packet is built,
\* no datagram goes out.
C17_MalformedNoSend ==
    \A r \in Reqs : \A i \in 1..Len(wake[r]) :
        Malformed(deviceMAC) =>
            /\ wake[r][i].err \in ConfigErrors
            /\ wake[r][i].tried = <<>>
            /\ wake[r][i].attempts = <<>>
            /\ wake[r][i].packet = <<>>
            /\ Sent(wake[r][i]) = <<>>

\* a wake send refused for an address with a letter that is no hex digit
C17_Witness ==
    \E r \in Reqs :
        /\ Malformed(deviceMAC)
        /\ Len(wake[r]) = 1
        /\ wake[r][1].err = <<"invalid mac">>
        /\ wake[r][1].tried = <<>>

\* C18: multi-valued headers are preserved in both directions: for every
\* name the values on the forwarded request are those of the inbound
\* request, and the values written to the caller are those of the backend's
\* response, same count and same order.
C18_HeadersPreserved ==
    \A r \in Reqs :
        /\ fwd[r] = 1 =>
               \A name \in HeaderNames : header[r].req[name] = header[r].r[name]
        /\ hist[r].backend # 0 =>
               \A name \in HeaderNames : header[r].w[name] = header[r].resp[name]

\* a request with two X-Test values relayed, the response carrying three
\* X-Test values and one Accept value
C18_Witness ==
    \E r \in Reqs :
        /\ pc[r] = "done"
        /\ header[r].req["X-Test"] = <<"a", "b">>
        /\ header[r].w["X-Test"] = <<"b", "a", "a">>
        /\ header[r].w["Accept"] = <<"c">>

\* the three ways out of the polling loop
LoopReady(r) ==
    /\ Last(probes[r]) = TRUE
    /\ w[r] \notin {<<StatusGatewayTimeout>>, <<StatusRequestTimeout>>}

LoopTimedOut(r) == w[r] = <<StatusGatewayTimeout>> /\ Last(probes[r]) = FALSE

LoopCancelled(r) == w[r] = <<StatusRequestTimeout>> /\ Last(probes[r]) = FALSE

\* the handler of r went through the wake-and-wait block and is out of it
LeftLoop(r) == hist[r].loopExitAt # NoTime /\ pc[r] \notin LoopPcs

\* C19: the wake-and-wait phase terminates: a request in it eventually
\* leaves it, and a request that left it did so as exactly one of ready,
\* timed out, cancelled.
C19_WaitTerminates ==
    /\ \A r \in Reqs : (pc[r] \in LoopPcs) ~> LeftLoop(r)
    /\ [](\A r \in Reqs :
            LeftLoop(r) =>
                /\ LoopReady(r) \/ LoopTimedOut(r) \/ LoopCancelled(r)
                /\ ~(LoopReady(r) /\ LoopTimedOut(r))
                /\ ~(LoopReady(r) /\ LoopCancelled(r))
                /\ ~(LoopTimedOut(r) /\ LoopCancelled(r)))

\* a request that polled with every probe failing and left the loop timed
\* out
C19_Witness ==
    \E r \in Reqs :
        /\ LeftLoop(r)
        /\ LoopTimedOut(r)
        /\ Len(probes[r]) >= 3
        /\ ctxDone[r] = NoTime

\* the handler of r answered with a status of its own making
ErrorResponse(r) == w[r] # <<>> /\ hist[r].backend = 0

\* C20: at most one status is written per request, a handler that returned
\* wrote exactly one (504, 408, 500, 502 or the backend's), and after an
\* error response the handler has returned: it writes no other status and
\* does not forward the request.
C20_OneStatus ==
    \A r \in Reqs :
        /\ Len(w[r]) <= 1
        /\ pc[r] = "done" => Len(w[r]) = 1
        /\ ErrorResponse(r) =>
               /\ pc[r] = "done"
               /\ w[r][1] \in {StatusGatewayTimeout, StatusRequestTimeout,
                               StatusInternalServerError, StatusBadGateway}
               /\ w[r][1] # StatusBadGateway => fwd[r] = 0
        /\ (w[r] # <<>> /\ ~ErrorResponse(r)) =>
               /\ pc[r] \in {"copy", "done"}
               /\ w[r] = <<hist[r].backend>>

\* a handler that returned after the 504, nothing forwarded
C20_Witness ==
    \E r \in Reqs :
        /\ pc[r] = "done"
        /\ w[r] = <<StatusGatewayTimeout>>
        /\ fwd[r] = 0
        /\ ~hist[r].built

=============================================================================
